---- MODULE Spec2Model ----
(***************************************************************************)
(* GPflow: the Sum-kernel expectation rules (gpflow/expectations/sums.py)  *)
(* and the variational GP models VGP and VGPOpperArchambeau                *)
(* (gpflow/models/vgp.py).                                                 *)
(*                                                                         *)
(* Tensors are functions from an index set to integers; elementwise       *)
(* addition is exact.  A tensor produced by a Sum rule carries, beside its *)
(* value, the postfix form of the expression that computed it, so that the *)
(* order of the accumulation is part of the state.                         *)
(***************************************************************************)
EXTENDS Integers, Sequences, FiniteSets, TLC

\* Longest child list of a Sum kernel.
MaxChildren == 2
\* Number of inducing points M (the cross-covariance tensors are M x M).
MDim == 2
\* Most rows of X and of Y.
MaxN == 2
\* Most latent outputs (and columns of Y).
MaxLatent == 2
\* Most entries of q_mu (rows times latent outputs).
MaxCells == 2

VARIABLES
    sums,       \* heap of Sum kernels: Sum object id -> its ordered child list
    skew,       \* 1 when the atomic pair terms are not adjoint-symmetric
    req,        \* the last expectation request (type tuple)
    res,        \* its outcome
    model,      \* "none" | "VGP" | "OA"
    data,       \* training data of the model (shapes of X and Y)
    kern,       \* kernel hyperparameter (signed variance)
    num_data,   \* number of rows of X
    num_latent, \* number of latent outputs
    q_mu,       \* VGP: N x L matrix (row -> latent -> value)
    q_sqrt,     \* VGP: L x N x N stack of lower-triangular matrices
    q_alpha,    \* VGPOpperArchambeau: N x L matrix
    q_lambda,   \* VGPOpperArchambeau: N x L matrix of positive values
    op,         \* the last operation of the model and its arguments
    out,        \* what that operation returned or raised
    cholCalls,  \* matrices handed to the Cholesky factorization by the last operation
    condCalls   \* calls of the conditional primitive by the last operation

expVars == <<sums, skew, req, res>>
vgpVars == <<model, data, kern, num_data, num_latent, q_mu, q_sqrt, q_alpha, q_lambda, op, out, cholCalls, condCalls>>
vars == <<sums, skew, req, res, model, data, kern, num_data, num_latent, q_mu, q_sqrt, q_alpha, q_lambda, op, out, cholCalls, condCalls>>

(***************************************************************************)
(* Part 1: expectations of Sum kernels                                     *)
(***************************************************************************)

None == "None"
Distributions == {"Gaussian", "DiagonalGaussian", "MarkovGaussian"}
\* "U" is an atomic kernel for which no expectation rule is registered.
AtomicKernels == {"A", "B", "U"}
SupportedAtomic == {"A", "B"}
SumIds == {"S1", "S2"}
Features == {"Z1", "Z2"}
MeanFunctions == {"Linear", "Identity", "Constant", "Zero"}
AffineMeans == {"Linear", "Identity", "Constant"}

IsSum(k) == k \in SumIds

Idx == 1 .. MDim

KBase(k) == IF k = "A" THEN 1 ELSE 3
FBase(f) == IF f = "Z1" THEN 1 ELSE 2
MeanWeight(m) == IF m = "Linear" THEN 2 ELSE IF m = "Identity" THEN 1 ELSE 3

\* K(x0, Z) of an atomic kernel at the single input point of the distribution.
Psi(k, f) == [m \in Idx |-> KBase(k) + m * FBase(f)]

\* Value of a base-case (atomic kernel) expectation.
AtomicValue(p, o1, f1, o2, f2) ==
    IF o2 = None /\ f1 = None THEN [n \in {1} |-> KBase(o1)]
    ELSE IF o2 = None THEN Psi(o1, f1)
    ELSE IF f1 = None THEN [m \in Idx |-> MeanWeight(o1) * Psi(o2, f2)[m]]
    ELSE [ix \in Idx \X Idx |->
            Psi(o1, f1)[ix[1]] * Psi(o2, f2)[ix[2]]
            + (IF ix = <<1, 2>> THEN skew * KBase(o1) ELSE 0)]

\* tf.add on two tensors of the same shape.
TAdd(a, b) == [ix \in DOMAIN a |-> a[ix] + b[ix]]

\* tf.linalg.adjoint on a real M x M tensor.
TAdjoint(a) == [ix \in DOMAIN a |-> a[<<ix[2], ix[1]>>]]

\* Traced tensors: the value and the postfix expression that computed it
\* (c > 0: the result of the c-th recursive call; 0: add; -1: adjoint).
Leaf(v, c) == [val |-> v, rpn |-> <<c>>]
TracedAdd(a, b) == [val |-> TAdd(a.val, b.val), rpn |-> a.rpn \o b.rpn \o <<0>>]
TracedAdjoint(a) == [val |-> TAdjoint(a.val), rpn |-> a.rpn \o <<-1>>]

\* functools.reduce(tf.add, terms): a left fold, first element as the start value.
RECURSIVE ReduceAdd(_)
ReduceRight(terms) ==
    LET RECURSIVE R(_)
        R(k) == IF k = Len(terms) THEN terms[k] ELSE TracedAdd(terms[k], R(k + 1))
    IN R(1)
ReduceSkipLast(terms) ==
    LET RECURSIVE F(_)
        F(k) == IF k = 1 THEN terms[1] ELSE TracedAdd(F(k - 1), terms[k])
    IN IF Len(terms) = 1 THEN terms[1] ELSE F(Len(terms) - 1)
ReduceAdd(terms) ==
    IF Len(terms) = 1 THEN terms[1]
    ELSE TracedAdd(ReduceAdd(SubSeq(terms, 1, Len(terms) - 1)), terms[Len(terms)])

\* The rules sums.py registers: the rule the type tuple of a request selects.
SumRuleFor(p, o1, f1, o2, f2) ==
    IF p = "Gaussian" /\ o1 \in SumIds /\ f1 = None /\ o2 = None /\ f2 = None
        THEN "SumDiag"
    ELSE IF p = "Gaussian" /\ o1 \in SumIds /\ f1 \in Features /\ o2 = None /\ f2 = None
        THEN "SumCross"
    ELSE IF p = "Gaussian" /\ o1 \in AffineMeans /\ f1 = None /\ o2 \in SumIds /\ f2 \in Features
        THEN "SumMean"
    ELSE IF p = "MarkovGaussian" /\ o1 = "Identity" /\ f1 = None /\ o2 \in SumIds /\ f2 \in Features
        THEN "SumMarkov"
    ELSE IF p \in {"Gaussian", "DiagonalGaussian"} /\ o1 \in SumIds /\ f1 \in Features
            /\ o2 \in SumIds /\ f2 \in Features
        THEN "SumDouble"
    ELSE "NoRule"

\* The base-case rules of the atomic kernels, registered for the same shapes of
\* request.
AtomicRuleFor(p, o1, f1, o2, f2) ==
    IF p = "Gaussian" /\ o1 \in SupportedAtomic /\ o2 = None /\ f2 = None
        THEN "Atomic"
    ELSE IF p = "Gaussian" /\ o1 \in AffineMeans /\ f1 = None
            /\ o2 \in SupportedAtomic /\ f2 \in Features
        THEN "Atomic"
    ELSE IF p = "MarkovGaussian" /\ o1 = "Identity" /\ f1 = None
            /\ o2 \in SupportedAtomic /\ f2 \in Features
        THEN "Atomic"
    ELSE IF p \in {"Gaussian", "DiagonalGaussian"} /\ o1 \in SupportedAtomic /\ f1 \in Features
            /\ o2 \in SupportedAtomic /\ f2 \in Features
        THEN "Atomic"
    ELSE "NoRule"

\* The registry: the rule that matches the runtime type tuple, if any.
RuleFor(p, o1, f1, o2, f2) ==
    IF SumRuleFor(p, o1, f1, o2, f2) # "NoRule" THEN SumRuleFor(p, o1, f1, o2, f2)
    ELSE AtomicRuleFor(p, o1, f1, o2, f2)

\* The outcome of a call that raised UnsupportedExpectation after issuing `calls`.
Unsupported(rule, branch, calls) ==
    [ok |-> FALSE, err |-> "UnsupportedExpectation", val |-> <<>>, rpn |-> <<>>,
     calls |-> calls, rule |-> rule, branch |-> branch]

\* One recursive call of a Sum rule: the request and the child indices it is for.
Call(p, o1, f1, o2, f2, i, j) ==
    [p |-> p, o1 |-> o1, f1 |-> f1, o2 |-> o2, f2 |-> f2, i |-> i, j |-> j]

RECURSIVE Expectation(_, _, _, _, _)

\* crossexps entry of the symmetry branch for the c-th call: the diagonal term as
\* returned, an off-diagonal term plus its adjoint.
SymTermNoAdjoint(v, c, offdiag) == Leaf(v, c)
SymTerm(v, c, offdiag) ==
    IF offdiag THEN TracedAdd(Leaf(v, c), TracedAdjoint(Leaf(v, c))) ELSE Leaf(v, c)

\* Runs the calls of `plan` in order; the first failing call ends the rule with its
\* error, otherwise the terms are accumulated.
GatherSkipFailed(rule, branch, plan, sym) ==
    LET outs == [c \in 1 .. Len(plan) |->
                    Expectation(plan[c].p, plan[c].o1, plan[c].f1, plan[c].o2, plan[c].f2)]
        good == {c \in 1 .. Len(plan) : outs[c].ok}
        first == IF good = {} THEN 1 ELSE CHOOSE c \in good : \A d \in good : c <= d
        RECURSIVE Acc(_)
        Acc(c) == IF c = first THEN Leaf(outs[c].val, c)
                  ELSE IF c \in good THEN TracedAdd(Acc(c - 1), Leaf(outs[c].val, c))
                  ELSE Acc(c - 1)
        total == Acc(Len(plan))
    IN  IF good = {} THEN Unsupported(rule, branch, [c \in 1 .. 1 |-> <<plan[c].i, plan[c].j>>])
        ELSE [ok |-> TRUE, err |-> None, val |-> total.val, rpn |-> total.rpn,
              calls |-> [c \in 1 .. Len(plan) |-> <<plan[c].i, plan[c].j>>],
              rule |-> rule, branch |-> branch]
Gather(rule, branch, plan, sym) ==
    LET outs == [c \in 1 .. Len(plan) |->
                    Expectation(plan[c].p, plan[c].o1, plan[c].f1, plan[c].o2, plan[c].f2)]
        failed == {c \in 1 .. Len(plan) : ~outs[c].ok}
        first == CHOOSE c \in failed : \A d \in failed : c <= d
        terms == [c \in 1 .. Len(plan) |->
                    IF sym THEN SymTerm(outs[c].val, c, plan[c].i # plan[c].j)
                    ELSE Leaf(outs[c].val, c)]
        total == ReduceAdd(terms)
    IN  IF failed # {}
        THEN Unsupported(rule, branch, [c \in 1 .. first |-> <<plan[c].i, plan[c].j>>])
        ELSE [ok |-> TRUE, err |-> None, val |-> total.val, rpn |-> total.rpn,
              calls |-> [c \in 1 .. Len(plan) |-> <<plan[c].i, plan[c].j>>],
              rule |-> rule, branch |-> branch]

\* <Sum_i diag(Ki(X, X))>_p
SumDiagRule(p, kernel) ==
    Gather("SumDiag", "fold",
           [i \in 1 .. Len(sums[kernel]) |-> Call(p, sums[kernel][i], None, None, None, i, 0)],
           FALSE)

\* <Sum_i Ki(X, Z)>_p
SumCrossRule(p, kernel, inducing_variable) ==
    Gather("SumCross", "fold",
           [i \in 1 .. Len(sums[kernel]) |->
               Call(p, sums[kernel][i], inducing_variable, None, None, i, 0)],
           FALSE)

\* <m(x_n)^T (Sum_i Ki(x_n, Z))>_p
SumMeanRule(p, mean, kernel, inducing_variable) ==
    Gather("SumMean", "fold",
           [i \in 1 .. Len(sums[kernel]) |->
               Call(p, mean, None, sums[kernel][i], inducing_variable, i, 0)],
           FALSE)

\* <x_{n+1} (Sum_i Ki(x_n, Z))>_p under a MarkovGaussian
SumMarkovRule(p, mean, kernel, inducing_variable) ==
    Gather("SumMarkov", "fold",
           [i \in 1 .. Len(sums[kernel]) |->
               Call(p, mean, None, sums[kernel][i], inducing_variable, i, 0)],
           FALSE)

\* Python's == on two kernel (or inducing-variable) objects: neither class defines
\* __eq__, so it is object identity.
SameObjectStructural(a, b) == IF IsSum(a) /\ IsSum(b) THEN sums[a] = sums[b] ELSE a = b
SameObject(a, b) == a = b

\* The calls of the symmetry branch, in the order the loops issue them.
RECURSIVE SymPairs(_)
SymPairs(i) ==
    IF i = 0 THEN <<>>
    ELSE SymPairs(i - 1) \o <<(<<i, i>>)>> \o [j \in 1 .. (i - 1) |-> <<i, j>>]

SymBranch(p, kern1, feat1, kern2, feat2) ==
    LET pairs == SymPairs(Len(sums[kern1]))
    IN  Gather("SumDouble", "sym",
               [c \in 1 .. Len(pairs) |->
                   Call(p, sums[kern1][pairs[c][1]], feat1,
                        sums[kern1][pairs[c][2]], IF pairs[c][1] = pairs[c][2] THEN feat1 ELSE feat2,
                        pairs[c][1], pairs[c][2])],
               TRUE)

\* itertools.product(kern1.kernels, kern2.kernels): the last index runs fastest.
ProductBranch(p, kern1, feat1, kern2, feat2) ==
    LET n1 == Len(sums[kern1])
        n2 == Len(sums[kern2])
    IN  Gather("SumDouble", "product",
               [c \in 1 .. (n1 * n2) |->
                   Call(p, sums[kern1][((c - 1) \div n2) + 1], feat1,
                        sums[kern2][((c - 1) % n2) + 1], feat2,
                        ((c - 1) \div n2) + 1, ((c - 1) % n2) + 1)],
               FALSE)

\* <(Sum_i K1_i(Z1, x_n)) (Sum_j K2_j(x_n, Z2))>_p
SumDoubleRule(p, kern1, feat1, kern2, feat2) ==
    IF SameObject(kern1, kern2) /\ SameObject(feat1, feat2)
    THEN SymBranch(p, kern1, feat1, kern2, feat2)
    ELSE ProductBranch(p, kern1, feat1, kern2, feat2)

\* expectation(...): dispatch on the type tuple.
Expectation(p, o1, f1, o2, f2) ==
    LET r == RuleFor(p, o1, f1, o2, f2)
    IN  CASE r = "SumDiag" -> SumDiagRule(p, o1)
          [] r = "SumCross" -> SumCrossRule(p, o1, f1)
          [] r = "SumMean" -> SumMeanRule(p, o1, o2, f2)
          [] r = "SumMarkov" -> SumMarkovRule(p, o1, o2, f2)
          [] r = "SumDouble" -> SumDoubleRule(p, o1, f1, o2, f2)
          [] r = "Atomic" ->
                [ok |-> TRUE, err |-> None, val |-> AtomicValue(p, o1, f1, o2, f2),
                 rpn |-> <<>>, calls |-> <<>>, rule |-> "Atomic", branch |-> None]
          [] OTHER -> Unsupported("NoRule", None, <<>>)

\* Child lists of at most MaxChildren kernels drawn from S (a Sum is never empty).
ChildLists(S) == UNION {[1 .. n -> S] : n \in 1 .. MaxChildren}

Pending ==
    [ok |-> TRUE, err |-> None, val |-> <<>>, rpn |-> <<>>, calls |-> <<>>,
     rule |-> "Pending", branch |-> None]
Request(p, o1, f1, o2, f2) == [p |-> p, o1 |-> o1, f1 |-> f1, o2 |-> o2, f2 |-> f2]

\* The expectation requests whose kernel operands are Sum kernels.
TopRequests ==
    {Request(p, k, f, None, None) : p \in Distributions, k \in SumIds, f \in Features \cup {None}}
    \cup {Request(p, m, None, k, f) :
            p \in Distributions, m \in MeanFunctions, k \in SumIds, f \in Features}
    \cup {Request(p, k[1], f[1], k[2], f[2]) :
            p \in Distributions, k \in SumIds \X SumIds, f \in Features \X Features}

\* Records of the last operation of a model and of its outcome.
Op(name, predict_at, full_cov, full_output_cov) ==
    [name |-> name, predict_at |-> predict_at, full_cov |-> full_cov,
     full_output_cov |-> full_output_cov]
NoOp == Op("none", None, FALSE, FALSE)
NoOut == [kind |-> "none", err |-> None, kl |-> 0, mean |-> None, var |-> None]
Raised(err) == [kind |-> "error", err |-> err, kl |-> 0, mean |-> None, var |-> None]
Returned(kl, mean, var) == [kind |-> "value", err |-> None, kl |-> kl, mean |-> mean, var |-> var]

\* The model part of the state while only expectations are exercised.
NoModel ==
    /\ model = "none"
    /\ data = [nx |-> 0, ny |-> 0, r |-> 0]
    /\ kern = 0
    /\ num_data = 0
    /\ num_latent = 0
    /\ q_mu = <<>>
    /\ q_sqrt = <<>>
    /\ q_alpha = <<>>
    /\ q_lambda = <<>>
    /\ op = NoOp
    /\ out = NoOut
    /\ cholCalls = <<>>
    /\ condCalls = <<>>

\* Two Sum kernel objects; S2 may hold S1 as a child (a nested composite). The
\* skew of the pair terms matters to requests with two kernel operands only.
InitExp ==
    /\ sums \in [SumIds -> ChildLists(AtomicKernels \cup {"S1"})]
    /\ sums["S1"] \in ChildLists(AtomicKernels)
    /\ sums["S2"] \in ChildLists({"B", "S1"})
    /\ req \in TopRequests
    /\ skew \in (IF req.f1 # None /\ req.o2 # None THEN {0, 1} ELSE {0})
    /\ res = Pending
    /\ NoModel

ExpectSumDiag ==
    \E p \in Distributions, k \in SumIds :
        /\ RuleFor(p, k, None, None, None) = "SumDiag"
        /\ res = Pending
        /\ req = Request(p, k, None, None, None)
        /\ res' = SumDiagRule(p, k)
        /\ UNCHANGED <<sums, skew, req>>
        /\ UNCHANGED vgpVars

ExpectSumCross ==
    \E p \in Distributions, k \in SumIds, f \in Features :
        /\ RuleFor(p, k, f, None, None) = "SumCross"
        /\ res = Pending
        /\ req = Request(p, k, f, None, None)
        /\ res' = SumCrossRule(p, k, f)
        /\ UNCHANGED <<sums, skew, req>>
        /\ UNCHANGED vgpVars

ExpectSumMean ==
    \E p \in Distributions, m \in MeanFunctions, k \in SumIds, f \in Features :
        /\ RuleFor(p, m, None, k, f) = "SumMean"
        /\ res = Pending
        /\ req = Request(p, m, None, k, f)
        /\ res' = SumMeanRule(p, m, k, f)
        /\ UNCHANGED <<sums, skew, req>>
        /\ UNCHANGED vgpVars

ExpectSumMarkov ==
    \E p \in Distributions, m \in MeanFunctions, k \in SumIds, f \in Features :
        /\ RuleFor(p, m, None, k, f) = "SumMarkov"
        /\ res = Pending
        /\ req = Request(p, m, None, k, f)
        /\ res' = SumMarkovRule(p, m, k, f)
        /\ UNCHANGED <<sums, skew, req>>
        /\ UNCHANGED vgpVars

ExpectSumDouble ==
    \E p \in Distributions, k1 \in SumIds, f1 \in Features, k2 \in SumIds, f2 \in Features :
        /\ RuleFor(p, k1, f1, k2, f2) = "SumDouble"
        /\ res = Pending
        /\ req = Request(p, k1, f1, k2, f2)
        /\ res' = SumDoubleRule(p, k1, f1, k2, f2)
        /\ UNCHANGED <<sums, skew, req>>
        /\ UNCHANGED vgpVars

\* A request on Sum kernels that no registered rule matches.
ExpectNoRule ==
    \E r \in TopRequests :
        /\ RuleFor(r.p, r.o1, r.f1, r.o2, r.f2) = "NoRule"
        /\ res = Pending
        /\ req = r
        /\ res' = Expectation(r.p, r.o1, r.f1, r.o2, r.f2)
        /\ UNCHANGED <<sums, skew, req>>
        /\ UNCHANGED vgpVars

NextExp ==
    \/ ExpectSumDiag
    \/ ExpectSumCross
    \/ ExpectSumMean
    \/ ExpectSumMarkov
    \/ ExpectSumDouble
    \/ ExpectNoRule

SpecExp == InitExp /\ [][NextExp]_vars

(***************************************************************************)
(* Properties of the Sum rules                                             *)
(***************************************************************************)

SingleRules == {"SumDiag", "SumCross", "SumMean", "SumMarkov"}

\* The Sum kernel a single-Sum request is about, and its children.
ReqSum == IF req.o2 = None THEN req.o1 ELSE req.o2
ReqChildren == sums[ReqSum]

\* The same request issued for child i alone.
ChildAlone(i) ==
    IF req.o2 = None
    THEN Expectation(req.p, ReqChildren[i], req.f1, None, None)
    ELSE Expectation(req.p, req.o1, None, ReqChildren[i], req.f2)

RECURSIVE SumSeq(_)
SumSeq(s) == IF s = <<>> THEN 0 ELSE s[1] + SumSeq(Tail(s))

\* C1: a single-Sum rule returns the elementwise sum of the expectations of the
\* children taken alone; with one child exactly that child's expectation, and with
\* two children that are the same kernel twice that kernel's expectation.
C1_SumIsSumOfChildren ==
    (res.rule \in SingleRules /\ res.ok) =>
        LET n == Len(ReqChildren)
            child == [i \in 1 .. n |-> ChildAlone(i)]
        IN  /\ \A i \in 1 .. n : child[i].ok /\ DOMAIN child[i].val = DOMAIN res.val
            /\ \A ix \in DOMAIN res.val :
                   res.val[ix] = SumSeq([i \in 1 .. n |-> child[n + 1 - i].val[ix]])
            /\ (n = 1 => res.val = child[1].val)
            /\ (n = 2 /\ ReqChildren[1] = ReqChildren[2] =>
                    \A ix \in DOMAIN res.val : res.val[ix] = 2 * child[1].val[ix])

C1_Witness ==
    /\ res.rule = "SumMean"
    /\ res.ok
    /\ ReqSum = "S2"
    /\ Len(ReqChildren) = 2
    /\ ReqChildren[1] = "S1"
    /\ Len(sums["S1"]) = 2
    /\ sums["S1"][1] # sums["S1"][2]

\* Term (i, j) of a double-Sum request: the pair expectation of child i of kern1
\* and child j of kern2.
PairTerm(i, j) ==
    Expectation(req.p, sums[req.o1][i], req.f1, sums[req.o2][j], req.f2)

\* Every pairwise term exists and term(j, i) is the adjoint of term(i, j).
AdjointSymmetricTerms ==
    \A i, j \in 1 .. Len(sums[req.o1]) :
        /\ PairTerm(i, j).ok
        /\ PairTerm(j, i).ok
        /\ PairTerm(j, i).val = TAdjoint(PairTerm(i, j).val)

\* C2: when kern1 is kern2 and feat1 is feat2 and the pairwise terms are
\* adjoint-symmetric, the symmetry branch returns what the brute-force sum over the
\* Cartesian product returns.
C2_SymEqualsBruteForce ==
    (res.rule = "SumDouble" /\ res.branch = "sym" /\ AdjointSymmetricTerms) =>
        LET brute == ProductBranch(req.p, req.o1, req.f1, req.o2, req.f2)
        IN  /\ res.ok
            /\ brute.ok
            /\ res.val = brute.val

C2_Witness ==
    /\ res.rule = "SumDouble"
    /\ res.branch = "sym"
    /\ AdjointSymmetricTerms
    /\ Len(sums[req.o1]) = 2
    /\ PairTerm(1, 2).val # PairTerm(2, 1).val
    /\ res.ok

\* Whether a rule exists for the request of every call a request leads to.
RECURSIVE KernelResolves(_)
KernelResolves(k) ==
    IF IsSum(k)
    THEN \A i \in 1 .. Len(sums[k]) : KernelResolves(sums[k][i])
    ELSE k \in SupportedAtomic

RECURSIVE PairResolves(_, _)
PairResolves(k1, k2) ==
    IF IsSum(k1) /\ IsSum(k2)
    THEN \A i \in 1 .. Len(sums[k1]), j \in 1 .. Len(sums[k2]) :
            PairResolves(sums[k1][i], sums[k2][j])
    ELSE k1 \in SupportedAtomic /\ k2 \in SupportedAtomic

RequestResolves ==
    /\ RuleFor(req.p, req.o1, req.f1, req.o2, req.f2) # "NoRule"
    /\ IF req.f1 # None /\ req.o2 # None
       THEN PairResolves(req.o1, req.o2)
       ELSE KernelResolves(ReqSum)

\* C3: a request for which no rule matches, at the top or in a recursive call for a
\* child, ends in UnsupportedExpectation and returns no value.
C3_NoRuleRaises ==
    (res # Pending /\ ~RequestResolves) =>
        /\ ~res.ok
        /\ res.err = "UnsupportedExpectation"
        /\ res.val = <<>>

C3_Witness ==
    /\ res.rule = "SumCross"
    /\ ~res.ok
    /\ Len(ReqChildren) = 2
    /\ ReqChildren[1] = "A"
    /\ ReqChildren[2] = "U"

C3_WitnessMarkovDouble ==
    /\ res # Pending
    /\ req.p = "MarkovGaussian"
    /\ IsSum(req.o1)
    /\ IsSum(req.o2)
    /\ ~res.ok

\* The postfix form of the left fold of the first k terms of the last result.
TermRpn(c) ==
    IF res.branch = "sym" /\ res.calls[c][1] # res.calls[c][2]
    THEN <<c, c, -1, 0>>
    ELSE <<c>>

RECURSIVE LeftFoldRpn(_)
LeftFoldRpn(k) == IF k = 1 THEN TermRpn(1) ELSE LeftFoldRpn(k - 1) \o TermRpn(k) \o <<0>>

\* C4: a Sum rule calls the expectation of its children in child-list order and
\* accumulates the terms by a left fold in that order; the sequence of calls and of
\* additions is a function of the request.
C4_LeftFoldInChildOrder ==
    (res.rule \in SingleRules \cup {"SumDouble"} /\ res.ok) =>
        /\ \A c, d \in 1 .. Len(res.calls) : c < d => res.calls[c][1] <= res.calls[d][1]
        /\ (res.rule \in SingleRules =>
                res.calls = [i \in 1 .. Len(ReqChildren) |-> <<i, 0>>])
        /\ res.rpn = LeftFoldRpn(Len(res.calls))

C4_Witness ==
    /\ res.rule = "SumDouble"
    /\ res.ok
    /\ Len(res.calls) = 4
    /\ res.branch = "product"
    /\ res.rpn = <<1, 2, 0, 3, 0, 4, 0>>

\* C9: the symmetry branch is taken exactly when kern1 is kern2 and feat1 is feat2;
\* it calls the expectation once for each pair (i, j) with j <= i and each
\* off-diagonal term contributes term + adjoint(term); otherwise every pair of the
\* Cartesian product is called once and no adjoint is taken.
C9_BranchAndCalls ==
    (res.rule = "SumDouble") =>
        LET n1 == Len(sums[req.o1])
            n2 == Len(sums[req.o2])
            same == req.o1 = req.o2 /\ req.f1 = req.f2
            lower == {ij \in (1 .. n1) \X (1 .. n1) : ij[2] <= ij[1]}
            all == [c \in 1 .. (n1 * n1) |-> <<((c - 1) \div n1) + 1, ((c - 1) % n1) + 1>>]
        IN  /\ (res.branch = "sym") <=> same
            /\ (res.branch = "product") <=> ~same
            /\ (res.ok /\ same) =>
                  /\ Len(res.calls) = (n1 * (n1 + 1)) \div 2
                  /\ {res.calls[c] : c \in 1 .. Len(res.calls)} = lower
                  /\ \A ix \in DOMAIN res.val :
                        res.val[ix] =
                            SumSeq([c \in 1 .. (n1 * n1) |->
                                IF all[c][2] = all[c][1]
                                    THEN PairTerm(all[c][1], all[c][2]).val[ix]
                                ELSE IF all[c][2] < all[c][1]
                                    THEN PairTerm(all[c][1], all[c][2]).val[ix]
                                         + PairTerm(all[c][1], all[c][2]).val[<<ix[2], ix[1]>>]
                                ELSE 0])
            /\ (res.ok /\ ~same) =>
                  /\ Len(res.calls) = n1 * n2
                  /\ {res.calls[c] : c \in 1 .. Len(res.calls)} = (1 .. n1) \X (1 .. n2)
                  /\ \A e \in 1 .. Len(res.rpn) : res.rpn[e] # -1

C9_Witness ==
    /\ res.rule = "SumDouble"
    /\ res.ok
    /\ req.o1 = "S1"
    /\ req.o2 = "S2"
    /\ req.f1 = req.f2
    /\ sums["S1"] = sums["S2"]
    /\ Len(sums["S1"]) = 2
    /\ res.branch = "product"

C9_WitnessSym ==
    /\ res.rule = "SumDouble"
    /\ res.ok
    /\ res.branch = "sym"
    /\ Len(res.calls) = 3

(***************************************************************************)
(* Part 2: VGP and VGPOpperArchambeau                                      *)
(*                                                                         *)
(* The variational parameters are counted in halves: an entry 2 stands for *)
(* 1.0.  X[i] = i and the kernel is kern * x * x', so that kernel(X) is a  *)
(* definite or an indefinite integer matrix according to the sign of kern. *)
(***************************************************************************)

MuVals == {0, 1}
DiagVals == {1, 2, 3}
OffVals == {0, 1}
LambdaVals == {1, 2}
KernVals == {-1, 1}

\* np.zeros((n, l))
Zeros(n, l) == [i \in 1 .. n |-> [k \in 1 .. l |-> 0]]

\* np.ones((n, l))
Ones(n, l) == [i \in 1 .. n |-> [k \in 1 .. l |-> 2]]

\* np.array([np.eye(n) for _ in range(l)])
OnesStack(n, l) == [k \in 1 .. l |-> [i \in 1 .. n |-> [j \in 1 .. n |-> 2]]]
EyeStack(n, l) ==
    [k \in 1 .. l |-> [i \in 1 .. n |-> [j \in 1 .. n |-> IF i = j THEN 2 ELSE 0]]]

\* kernel(x_data): the n x n kernel matrix.
KernelMatrix(kv, n) == [i \in 1 .. n |-> [j \in 1 .. n |-> kv * i * j]]

\* Determinant of the leading n x n block of m, by expansion along the last row.
RECURSIVE Det(_, _)
Det(m, n) ==
    IF n = 0 THEN 1
    ELSE IF n = 1 THEN m[1][1]
    ELSE SumSeq([c \in 1 .. n |->
            (IF (n + c) % 2 = 0 THEN 1 ELSE -1) * m[n][c]
            * Det([i \in 1 .. (n - 1) |->
                      [j \in 1 .. (n - 1) |-> m[i][IF j < c THEN j ELSE j + 1]]], n - 1)])

\* tf.linalg.cholesky succeeds on a symmetric matrix exactly when it is positive
\* definite: every leading principal minor is positive.
IsPD(m) == \A k \in 1 .. Len(m) : Det(m, k) > 0

\* Shapes a and b broadcast against each other in an elementwise operation.
Broadcasts(a, b) == a = b \/ a = 1 \/ b = 1

\* An upper bound of 1000 * ln(d * d) for a diagonal entry d (v halves).
Ln1000(v) ==
    CASE v * v = 1 -> -1386
      [] v * v = 4 -> 0
      [] v * v = 9 -> 811

\* gauss_kl(q_mu, q_sqrt) against the standard normal prior, in the whitened basis:
\* 0.5 * (sum(q_mu^2) + sum(q_sqrt^2) - N * L - sum(log(diag(q_sqrt)^2))), times 8000.
GaussKL(mu, sq) ==
    LET n == Len(mu)
        l == Len(sq)
        maha == SumSeq([c \in 1 .. (n * l) |->
                    mu[((c - 1) \div l) + 1][((c - 1) % l) + 1]
                    * mu[((c - 1) \div l) + 1][((c - 1) % l) + 1]])
        trace == SumSeq([c \in 1 .. (l * n * n) |->
                    sq[((c - 1) \div (n * n)) + 1][(((c - 1) \div n) % n) + 1][((c - 1) % n) + 1]
                    * sq[((c - 1) \div (n * n)) + 1][(((c - 1) \div n) % n) + 1][((c - 1) % n) + 1]])
        logdet == SumSeq([c \in 1 .. (l * n) |->
                    Ln1000(sq[((c - 1) \div n) + 1][((c - 1) % n) + 1][((c - 1) % n) + 1])])
    IN  1000 * (maha + trace - 4 * n * l) - 4 * logdet

\* self.num_latent = num_latent or y_data.shape[1]
NumLatent(arg, r) == IF arg # 0 THEN arg ELSE r

\* The state before a model is constructed.
InitVGP ==
    /\ sums = [k \in SumIds |-> <<"A">>]
    /\ skew = 0
    /\ req = Request("Gaussian", "S1", None, None, None)
    /\ res = Pending
    /\ NoModel

\* VGP.__init__(data, kernel, likelihood, mean_function, num_latent)
VGP_init ==
    \E nx \in 1 .. MaxN, ny \in 1 .. MaxN, r \in 1 .. MaxLatent,
       nl \in 0 .. MaxLatent, kv \in KernVals :
        /\ model = "none"
        /\ nx * NumLatent(nl, r) <= MaxCells
        /\ model' = "VGP"
        /\ num_data' = nx
        /\ num_latent' = NumLatent(nl, r)
        /\ data' = [nx |-> nx, ny |-> ny, r |-> r]
        /\ kern' = kv
        /\ q_mu' = Zeros(nx, NumLatent(nl, r))
        /\ q_sqrt' = EyeStack(nx, NumLatent(nl, r))
        /\ op' = Op("construct", None, FALSE, FALSE)
        /\ out' = NoOut
        /\ UNCHANGED <<q_alpha, q_lambda, cholCalls, condCalls>>
        /\ UNCHANGED expVars

\* VGPOpperArchambeau.__init__(data, kernel, likelihood, mean_function, num_latent)
OA_init ==
    \E nx \in 1 .. MaxN, ny \in 1 .. MaxN, r \in 1 .. MaxLatent,
       nl \in 0 .. MaxLatent, kv \in KernVals :
        /\ model = "none"
        /\ nx * NumLatent(nl, r) <= MaxCells
        /\ model' = "OA"
        /\ data' = [nx |-> nx, ny |-> ny, r |-> r]
        /\ num_data' = nx
        /\ num_latent' = NumLatent(nl, r)
        /\ kern' = kv
        /\ q_alpha' = Zeros(nx, NumLatent(nl, r))
        /\ q_lambda' = Ones(nx, NumLatent(nl, r))
        /\ op' = Op("construct", None, FALSE, FALSE)
        /\ out' = NoOut
        /\ UNCHANGED <<q_mu, q_sqrt, cholCalls, condCalls>>
        /\ UNCHANGED expVars

\* What an optimizer step leaves alone.
UpdateFrame ==
    /\ op' = Op("update", None, FALSE, FALSE)
    /\ out' = NoOut
    /\ cholCalls' = <<>>
    /\ condCalls' = <<>>
    /\ UNCHANGED <<model, data, num_data, num_latent>>
    /\ UNCHANGED expVars

\* The external optimizer assigns an entry of q_mu.
UpdateQMu ==
    \E i \in 1 .. num_data, k \in 1 .. num_latent, v \in MuVals :
        /\ model = "VGP"
        /\ q_mu' = [q_mu EXCEPT ![i][k] = v]
        /\ UNCHANGED <<q_sqrt, q_alpha, q_lambda, kern>>
        /\ UpdateFrame

\* The external optimizer assigns an entry of q_sqrt; the triangular transform
\* keeps the matrix lower-triangular.
UpdateQSqrt ==
    \E k \in 1 .. num_latent, i \in 1 .. num_data, j \in 1 .. num_data :
        \E v \in (IF i = j THEN DiagVals ELSE OffVals) :
            /\ model = "VGP"
            /\ j <= i
            /\ q_sqrt' = [q_sqrt EXCEPT ![k][i][j] = v]
            /\ UNCHANGED <<q_mu, q_alpha, q_lambda, kern>>
            /\ UpdateFrame

\* The external optimizer assigns an entry of q_alpha.
UpdateQAlpha ==
    \E i \in 1 .. num_data, k \in 1 .. num_latent, v \in MuVals :
        /\ model = "OA"
        /\ q_alpha' = [q_alpha EXCEPT ![i][k] = v]
        /\ UNCHANGED <<q_mu, q_sqrt, q_lambda, kern>>
        /\ UpdateFrame

\* The external optimizer assigns an entry of q_lambda; the positive transform
\* keeps it positive.
UpdateQLambda ==
    \E i \in 1 .. num_data, k \in 1 .. num_latent, v \in LambdaVals :
        /\ model = "OA"
        /\ q_lambda' = [q_lambda EXCEPT ![i][k] = v]
        /\ UNCHANGED <<q_mu, q_sqrt, q_alpha, kern>>
        /\ UpdateFrame

\* The external optimizer assigns the kernel's hyperparameter.
UpdateKernel ==
    \E kv \in KernVals :
        /\ model # "none"
        /\ kern' = kv
        /\ UNCHANGED <<q_mu, q_sqrt, q_alpha, q_lambda>>
        /\ UpdateFrame

\* log_likelihood and predict_f assign no attribute of the model.
ReadOnlyResetsParameters ==
    /\ q_mu' = (IF model = "VGP" THEN Zeros(num_data, num_latent) ELSE q_mu)
    /\ q_alpha' = (IF model = "OA" THEN Zeros(num_data, num_latent) ELSE q_alpha)
    /\ UNCHANGED <<model, data, kern, num_data, num_latent, q_sqrt, q_lambda>>
ReadOnly ==
    UNCHANGED <<model, data, kern, num_data, num_latent, q_mu, q_sqrt, q_alpha, q_lambda>>

\* K = kernel(x_data) + eye(num_data) * jitter (the jitter is one unit)
VGP_K ==
    [i \in 1 .. num_data |-> [j \in 1 .. num_data |->
        KernelMatrix(kern, data.nx)[i][j] + (IF i = j THEN 1 ELSE 0)]]

\* L = tf.linalg.cholesky(K): the matrices handed to the factorization, and whether
\* it succeeded.
FactorWithRetry(K) ==
    LET more == [i \in 1 .. Len(K) |-> [j \in 1 .. Len(K) |->
                    K[i][j] + (IF i = j THEN 10 ELSE 0)]]
    IN  IF IsPD(K) THEN [tried |-> <<K>>, ok |-> TRUE]
        ELSE [tried |-> <<K, more>>, ok |-> IsPD(more)]
Factor(K) == [tried |-> <<K>>, ok |-> IsPD(K)]

\* VGP.log_likelihood()
VGP_log_likelihood ==
    /\ model = "VGP"
    /\ LET KL == GaussKL(q_mu, q_sqrt)
           fac == Factor(VGP_K)
       IN  /\ cholCalls' = fac.tried
           /\ out' = IF ~fac.ok THEN Raised("NonPositiveDefiniteError")
                     ELSE IF ~(Broadcasts(num_data, data.ny) /\ Broadcasts(num_latent, data.r))
                         THEN Raised("InvalidArgumentError")
                     ELSE Returned(KL, None, None)
    /\ op' = Op("elbo", None, FALSE, FALSE)
    /\ condCalls' = <<>>
    /\ ReadOnly
    /\ UNCHANGED expVars

\* The call of the conditional primitive by VGP.predict_f; full_output_cov is the
\* set of values passed for that keyword (none: the primitive's default applies).
ConditionalCallForwarding(predict_at, full_cov, full_output_cov) ==
    [Xnew |-> predict_at, X |-> data.nx, kernel |-> kern, f |-> q_mu, q_sqrt |-> q_sqrt,
     full_cov |-> full_cov, white |-> TRUE, full_output_cov |-> {full_output_cov}]
ConditionalCall(predict_at, full_cov, full_output_cov) ==
    [Xnew |-> predict_at, X |-> data.nx, kernel |-> kern, f |-> q_mu, q_sqrt |-> q_sqrt,
     full_cov |-> full_cov, white |-> TRUE, full_output_cov |-> {}]

\* VGP.predict_f(predict_at, full_cov, full_output_cov)
VGP_predict_f ==
    \E predict_at \in {"Xnew"}, full_cov \in BOOLEAN, full_output_cov \in BOOLEAN :
        /\ model = "VGP"
        /\ LET call == ConditionalCall(predict_at, full_cov, full_output_cov)
           IN  /\ condCalls' = <<call>>
               /\ out' = Returned(0, [mu_of |-> call, plus_mean_function_at |-> predict_at],
                                  [var_of |-> call])
        /\ op' = Op("predict", predict_at, full_cov, full_output_cov)
        /\ cholCalls' = <<>>
        /\ ReadOnly
        /\ UNCHANGED expVars

\* lambda_i * lambda_j * K[i][j] + 4 * [i = j] for latent output k: four times
\* A = I + lambda lambda^T o K, and diag(lambda) (K + diag(1 / lambda^2)) diag(lambda).
OA_A(k) ==
    [i \in 1 .. num_data |-> [j \in 1 .. num_data |->
        q_lambda[i][k] * q_lambda[j][k] * KernelMatrix(kern, data.nx)[i][j]
        + (IF i = j THEN 4 ELSE 0)]]

\* VGPOpperArchambeau.log_likelihood()
OA_log_likelihood ==
    /\ model = "OA"
    /\ LET A == [k \in 1 .. num_latent |-> OA_A(k)]
       IN  /\ cholCalls' = <<A>>
           /\ out' = IF \E k \in 1 .. num_latent : ~IsPD(A[k])
                         THEN Raised("NonPositiveDefiniteError")
                     ELSE IF ~(Broadcasts(num_data, data.ny) /\ Broadcasts(num_latent, data.r))
                         THEN Raised("InvalidArgumentError")
                     ELSE Returned(0, None, None)
    /\ op' = Op("elbo", None, FALSE, FALSE)
    /\ condCalls' = <<>>
    /\ ReadOnly
    /\ UNCHANGED expVars

\* VGPOpperArchambeau.predict_f(predict_at, full_cov)
OA_predict_f ==
    \E predict_at \in {"Xnew"}, full_cov \in BOOLEAN :
        /\ model = "OA"
        /\ LET A == [k \in 1 .. num_latent |-> OA_A(k)]
           IN  /\ cholCalls' = <<A>>
               /\ out' = IF \E k \in 1 .. num_latent : ~IsPD(A[k])
                             THEN Raised("NonPositiveDefiniteError")
                         ELSE Returned(0, [Kx_alpha_of |-> predict_at,
                                           plus_mean_function_at |-> predict_at],
                                       [full_cov |-> full_cov])
        /\ op' = Op("predict", predict_at, full_cov, FALSE)
        /\ condCalls' = <<>>
        /\ ReadOnly
        /\ UNCHANGED expVars

NextVGP ==
    \/ VGP_init
    \/ OA_init
    \/ UpdateQMu
    \/ UpdateQSqrt
    \/ UpdateQAlpha
    \/ UpdateQLambda
    \/ UpdateKernel
    \/ VGP_log_likelihood
    \/ VGP_predict_f
    \/ OA_log_likelihood
    \/ OA_predict_f

SpecVGP == InitVGP /\ [][NextVGP]_vars

(***************************************************************************)
(* Properties of the variational models                                    *)
(***************************************************************************)

\* C5: the KL term of VGP's ELBO is never negative, and it is exactly 0 in the
\* state of a freshly constructed VGP: q_mu all zeros, q_sqrt a stack of identities.
C5_KLNonNegative ==
    (model = "VGP") =>
        /\ GaussKL(q_mu, q_sqrt) >= 0
        /\ (op.name = "construct" =>
                /\ Len(q_mu) = data.nx
                /\ Len(q_sqrt) = num_latent
                /\ \A i \in 1 .. num_data, k \in 1 .. num_latent : q_mu[i][k] = 0
                /\ \A k \in 1 .. num_latent, i \in 1 .. num_data, j \in 1 .. num_data :
                       q_sqrt[k][i][j] = (IF i = j THEN 2 ELSE 0)
                /\ GaussKL(q_mu, q_sqrt) = 0)
        /\ (op.name = "elbo" /\ out.kind = "value" =>
                out.kl = GaussKL(q_mu, q_sqrt) /\ out.kl >= 0)

C5_Witness ==
    /\ model = "VGP"
    /\ op.name = "elbo"
    /\ out.kind = "value"
    /\ num_data = 2
    /\ q_sqrt[1][1][1] = 1
    /\ q_sqrt[1][2][1] = 1
    /\ q_sqrt[1][2][2] = 3
    /\ q_mu[2][1] = 1
    /\ out.kl > 0

C5_WitnessFresh ==
    /\ model = "VGP"
    /\ op.name = "construct"
    /\ num_data = 2
    /\ GaussKL(q_mu, q_sqrt) = 0

\* C6: log_likelihood and predict_f of both models leave the variational parameters
\* and the training data unchanged; after construction the parameters change in
\* optimizer updates only and the data never changes.
C6_ReadOnlyOperations ==
    [][/\ (op'.name \in {"elbo", "predict"} =>
              /\ q_mu' = q_mu
              /\ q_sqrt' = q_sqrt
              /\ q_alpha' = q_alpha
              /\ q_lambda' = q_lambda
              /\ data' = data)
       /\ (model # "none" => data' = data)
       /\ (model # "none" /\ <<q_mu, q_sqrt, q_alpha, q_lambda>>' # <<q_mu, q_sqrt, q_alpha, q_lambda>>
              => op'.name = "update")]_vars

C6_Witness ==
    /\ model = "OA"
    /\ op.name = "elbo"
    /\ out.kind = "value"
    /\ num_data = 2
    /\ q_alpha[2][1] = 1
    /\ q_lambda[1][1] = 1

C6_WitnessVGP ==
    /\ model = "VGP"
    /\ op.name = "predict"
    /\ q_mu[1][1] = 1
    /\ q_sqrt[1][1][1] = 3

\* C7: when the Cholesky factorization of K = kernel(X, X) + jitter * I fails in
\* VGP.log_likelihood, the call raises: the factorization was attempted once, on K
\* with the fixed jitter, no ELBO value is returned and the parameters are unchanged.
C7_CholeskyFailureSurfaced ==
    [][(model = "VGP" /\ op'.name = "elbo" /\ ~IsPD(VGP_K)) =>
          /\ out'.kind = "error"
          /\ out'.err = "NonPositiveDefiniteError"
          /\ Len(cholCalls') = 1
          /\ cholCalls'[1] = VGP_K
          /\ q_mu' = q_mu
          /\ q_sqrt' = q_sqrt]_vars

C7_Witness ==
    /\ model = "VGP"
    /\ op.name = "elbo"
    /\ out.kind = "error"
    /\ out.err = "NonPositiveDefiniteError"
    /\ Len(cholCalls) = 1
    /\ q_mu[1][1] = 1

C10_PredictDelegates ==
    (model = "VGP" /\ op.name = "predict") =>
        /\ Len(condCalls) = 1
        /\ condCalls[1].Xnew = op.predict_at
        /\ condCalls[1].X = data.nx
        /\ condCalls[1].kernel = kern
        /\ condCalls[1].f = q_mu
        /\ condCalls[1].q_sqrt = q_sqrt
        /\ condCalls[1].full_cov = op.full_cov
        /\ condCalls[1].white = TRUE
        /\ condCalls[1].full_output_cov = {}
        /\ out.kind = "value"
        /\ out.mean = [mu_of |-> condCalls[1], plus_mean_function_at |-> op.predict_at]
        /\ out.var = [var_of |-> condCalls[1]]

C10_Witness ==
    /\ model = "VGP"
    /\ op.name = "predict"
    /\ op.full_output_cov = TRUE
    /\ op.full_cov = TRUE
    /\ q_mu[1][1] = 1
    /\ Len(condCalls) = 1

====
